---- MODULE Spec2Model ----
(***************************************************************************)
(* Resetability estimation engine of eddolo/resetability_suite:            *)
(* quaternion algebra, the lambda/R/theta estimator, the benefit           *)
(* predictor, the sliding-window analyzer, the streaming buffer and the    *)
(* Monte Carlo evaluator (python/so3_reset.py, python/core_math.py,        *)
(* python/montecarlo_robot.py).                                            *)
(*                                                                         *)
(* Floats are fixed-point integers: the float x is the integer x * Scale,  *)
(* every product and quotient rounded to the nearest unit, symmetrically   *)
(* in the sign as IEEE arithmetic is.  The guards 1e-12 and 1e-15 of the   *)
(* source are the smallest positive fixed-point value, one unit.           *)
(* A numpy array is an object: a sequence takes (ref, angle) pairs, ref    *)
(* an address in a heap of 3-vectors, so that the in-place operations of   *)
(* the source act on the array every alias sees.                           *)
(***************************************************************************)
EXTENDS Integers, Sequences, FiniteSets, TLC

\* ------------------------------------------------------------------ floats

\* units per 1.0
Scale == 10000

\* np.pi
Pi == 31416

HalfPi == 15708

TwoPi == 62832

\* the guard 1e-12 (axis norms, angles)
Eps12 == 1

\* the guard 1e-15 (quat_normalize)
Eps15 == 1

\* np.nan, a value no computation returns
NaN == -999999999

Abs(a) == IF a < 0 THEN -a ELSE a

Min(a, b) == IF a < b THEN a ELSE b

Max(a, b) == IF a > b THEN a ELSE b

\* a / b on integers, b > 0, rounded to nearest, halves away from zero
DivR(a, b) == IF a < 0 THEN -((b \div 2 - a) \div b) ELSE (a + b \div 2) \div b

\* the float product a * b
Mul(a, b) == DivR(a * b, Scale)

\* the float product k * x for a large k >= 0: k is split so that no
\* partial product leaves 32 bits
MulBig(k, x) == (k \div Scale) * x + DivR((k % Scale) * x, Scale)

\* the float quotient a / b, b > 0
FDiv(a, b) == DivR(a * Scale, b)

\* int(x): truncation toward zero
Trunc(a) == IF a < 0 THEN -((-a) \div Scale) ELSE a \div Scale

\* np.clip(a, lo, hi)
Clip(a, lo, hi) == Max(lo, Min(a, hi))

RECURSIVE Newton(_, _)
Newton(n, x) ==
    LET y == (x + n \div x) \div 2
    IN  IF y >= x THEN x ELSE Newton(n, y)

\* floor of the square root of the integer n >= 0
ISqrt(n) == IF n = 0 THEN 0 ELSE Newton(n, Min(n, 46340))

\* r = floor(sqrt(n)), rounded to the nearest root
RoundRoot(n, r) == IF n - r * r > r THEN r + 1 ELSE r

\* the square root of the integer n >= 0, rounded to nearest
RSqrt(n) == RoundRoot(n, ISqrt(n))

\* np.sqrt(x) of the float x >= 0
Sqrt(x) == RSqrt(x * Scale)

\* cos on [0, pi/2]: the Taylor polynomial to x^10 in u = x^2, Horner form
CosPoly(u) ==
    LET t5 == Scale - DivR(u, 90)
        t4 == Scale - DivR(Mul(u, t5), 56)
        t3 == Scale - DivR(Mul(u, t4), 30)
        t2 == Scale - DivR(Mul(u, t3), 12)
    IN  << t5, t4, t3, t2, Scale - DivR(Mul(u, t2), 2) >>[5]

\* sin(x) / x on [0, pi/2]: the Taylor polynomial to x^10 in u = x^2
SincPoly(u) ==
    LET t5 == Scale - DivR(u, 110)
        t4 == Scale - DivR(Mul(u, t5), 72)
        t3 == Scale - DivR(Mul(u, t4), 42)
        t2 == Scale - DivR(Mul(u, t3), 20)
    IN  << t5, t4, t3, t2, Scale - DivR(Mul(u, t2), 6) >>[5]

\* the angle r in [0, 2 pi) folded into [0, pi/2]
Fold(r) ==
    IF r <= HalfPi THEN r
    ELSE IF r <= Pi THEN Pi - r
    ELSE IF r <= Pi + HalfPi THEN r - Pi
    ELSE TwoPi - r

\* np.cos
Cos(x) ==
    (IF x % TwoPi <= HalfPi \/ x % TwoPi > Pi + HalfPi THEN 1 ELSE -1)
        * CosPoly(Mul(Fold(x % TwoPi), Fold(x % TwoPi)))

\* np.sin
Sin(x) ==
    (IF x % TwoPi <= Pi THEN 1 ELSE -1)
        * Mul(Fold(x % TwoPi), SincPoly(Mul(Fold(x % TwoPi), Fold(x % TwoPi))))

\* F(v) with v evaluated before F is entered.  A tuple is evaluated left to
\* right: the definitions below list the statements of a function body in
\* the order they run, the value returned last.
Then(v, F(_)) == << v, F(v) >>[2]

\* the i-th of the Fan - 1 points that cut lo..hi, lo < hi, into Fan parts
Fan == 4

Cut(lo, hi, i) == lo + (i * (hi - lo) + Fan - 1) \div Fan

\* the greatest angle in lo..hi whose cosine is >= w (cos decreases on
\* [0, pi]): c of the cuts of lo..hi have such a cosine
RECURSIVE LastAbove(_, _, _)
LastAboveCut(w, lo, hi, c) ==
    LastAbove(w, IF c = 0 THEN lo ELSE Cut(lo, hi, c),
                 IF c = Fan - 1 THEN hi ELSE Cut(lo, hi, c + 1) - 1)

LastAbove(w, lo, hi) ==
    IF lo >= hi THEN lo
    ELSE LastAboveCut(w, lo, hi, Cardinality({ i \in 1..Fan - 1 : Cos(Cut(lo, hi, i)) >= w }))

\* the least angle in lo..hi whose cosine is <= w: c of the cuts of
\* lo - 1..hi - 1 have a greater cosine
RECURSIVE FirstBelow(_, _, _)
FirstBelowCut(w, lo, hi, c) ==
    FirstBelow(w, IF c = 0 THEN lo ELSE Cut(lo - 1, hi - 1, c) + 1,
                  IF c = Fan - 1 THEN hi ELSE Cut(lo - 1, hi - 1, c + 1))

FirstBelow(w, lo, hi) ==
    IF lo >= hi THEN lo
    ELSE FirstBelowCut(w, lo, hi,
                       Cardinality({ i \in 1..Fan - 1 : Cos(Cut(lo - 1, hi - 1, i)) > w }))

\* the least angle whose cosine is <= w, below hi whose cosine is: looked
\* for step, 2 * step, ... under hi
RECURSIVE FirstUnder(_, _, _)
FirstUnder(w, hi, step) ==
    IF Cos(Max(0, hi - step)) <= w THEN FirstUnder(w, Max(0, hi - step), 2 * step)
    ELSE FirstBelow(w, Max(0, hi - step) + 1, hi)

\* the least angle whose cosine is <= w, last the greatest whose cosine
\* is >= w
FirstOf(w, last) == IF Cos(last) > w THEN last + 1 ELSE FirstUnder(w, last, 1)

\* np.arccos on [-1, 1]: exact at the ends, else the middle of the angles
\* whose cosine rounds to w
ArcCos(w) ==
    IF w >= Scale THEN 0
    ELSE IF w <= -Scale THEN Pi
    ELSE Then(LastAbove(w, 0, Pi), LAMBDA last : (FirstOf(w, last) + last) \div 2)

\* np.degrees: x * (180 / pi)
Degrees(x) == MulBig(572958, x)

\* a < b on floats: False when either is NaN
FLt(a, b) == a # NaN /\ b # NaN /\ a < b

\* -------------------------------------------------------- quaternions

Identity == << Scale, 0, 0, 0 >>

\* np.linalg.norm of a 3-vector
Norm3(n) == RSqrt(n[1] * n[1] + n[2] * n[2] + n[3] * n[3])

\* np.linalg.norm of a quaternion
Norm4(q) == RSqrt(q[1] * q[1] + q[2] * q[2] + q[3] * q[3] + q[4] * q[4])

\* a product whose z component takes z1 * w2 with the wrong sign
QuatMulSign(a, b) ==
    << Mul(a[1], b[1]) - Mul(a[2], b[2]) - Mul(a[3], b[3]) - Mul(a[4], b[4]),
       Mul(a[1], b[2]) + Mul(a[2], b[1]) + Mul(a[3], b[4]) - Mul(a[4], b[3]),
       Mul(a[1], b[3]) - Mul(a[2], b[4]) + Mul(a[3], b[1]) + Mul(a[4], b[2]),
       Mul(a[1], b[4]) + Mul(a[2], b[3]) - Mul(a[3], b[2]) - Mul(a[4], b[1]) >>

quat_mul(a, b) ==
    << Mul(a[1], b[1]) - Mul(a[2], b[2]) - Mul(a[3], b[3]) - Mul(a[4], b[4]),
       Mul(a[1], b[2]) + Mul(a[2], b[1]) + Mul(a[3], b[4]) - Mul(a[4], b[3]),
       Mul(a[1], b[3]) - Mul(a[2], b[4]) + Mul(a[3], b[1]) + Mul(a[4], b[2]),
       Mul(a[1], b[4]) + Mul(a[2], b[3]) - Mul(a[3], b[2]) + Mul(a[4], b[1]) >>

\* q / d
QuatOver(q, d) == << FDiv(q[1], d), FDiv(q[2], d), FDiv(q[3], d), FDiv(q[4], d) >>

\* q / (np.linalg.norm(q) + 1e-15)
quat_normalize(q) == QuatOver(q, Norm4(q) + Eps15)

quat_conj(q) == << q[1], -q[2], -q[3], -q[4] >>

\* n / d
AxisOver(n, d) == << FDiv(n[1], d), FDiv(n[2], d), FDiv(n[3], d) >>

\* n / (np.linalg.norm(n) + 1e-12)
AxisNormalize(n) == AxisOver(n, Norm3(n) + Eps12)

\* np.array([c, *(s * n)]), with the array n as it now is
AxangQuat(m, c, s) == [n |-> m, q |-> << c, Mul(s, m[1]), Mul(s, m[2]), Mul(s, m[3]) >>]

\* axang_to_quat(n, th): n is a float array, so np.asarray(n, float) is n
\* itself and n /= ... rewrites the caller's array: field n is the array
\* after the call, field q the quaternion returned.
axang_to_quat(n, th) == AxangQuat(AxisNormalize(n), Cos(DivR(th, 2)), Sin(DivR(th, 2)))

\* th = 2 * np.arccos(w)
AngleOfW(w) == 2 * ArcCos(w)

\* the return of quat_to_axang: the canonical axis and 0 when th < 1e-12,
\* else the vector part over s (a new array) and th
AxangOf(u, th, s) ==
    IF th < Eps12 THEN [n |-> << Scale, 0, 0 >>, th |-> 0]
    ELSE [n |-> << FDiv(u[2], s), FDiv(u[3], s), FDiv(u[4], s) >>, th |-> th]

\* quat_to_axang from the clipped w of the normalized u
AxangOfW(u, w) == AxangOf(u, AngleOfW(w), Sqrt(Max(Scale - Mul(w, w), Eps12)))

\* quat_to_axang from the normalized u
AxangOfUnit(u) == AxangOfW(u, Clip(u[1], -Scale, Scale))

quat_to_axang(q) == AxangOfUnit(quat_normalize(q))

\* A sequence is a list of (ref, th) tuples, ref the address of the axis
\* array in the heap h.  The loop of compose_seq from element i on, q the
\* product so far: the result is the product and the heap the loop leaves.
\* a step that multiplies on the right: q = quat_mul(q, axang_to_quat(n, th))
ComposeStepRight(h, ref, q, a) == [q |-> quat_mul(q, a.q), heap |-> [h EXCEPT ![ref] = a.n]]

ComposeStep(h, ref, q, a) == [q |-> quat_mul(a.q, q), heap |-> [h EXCEPT ![ref] = a.n]]

RECURSIVE ComposeFrom(_, _, _)
ComposeFrom(seq, i, r) ==
    IF i > Len(seq) THEN r
    ELSE Then(ComposeStep(r.heap, seq[i].ref, r.q,
                          axang_to_quat(r.heap[seq[i].ref], seq[i].th)),
              LAMBDA r1 : ComposeFrom(seq, i + 1, r1))

\* return quat_normalize(q)
ComposeReturn(r) == [q |-> quat_normalize(r.q), heap |-> r.heap]

compose_seq(h, seq) ==
    Then(ComposeFrom(seq, 1, [q |-> Identity, heap |-> h]), ComposeReturn)

\* [(n, lam * th) for (n, th) in seq]: the same arrays, scaled angles
ScaleAngles(seq, lam) ==
    [i \in DOMAIN seq |-> [ref |-> seq[i].ref, th |-> MulBig(lam, seq[i].th)]]

\* the scaled list, not repeated
ScaledOnce(seq, lam) == ScaleAngles(seq, lam)

\* [(n, lam * th) for (n, th) in seq] * 2
ScaledTwice(seq, lam) == ScaleAngles(seq, lam) \o ScaleAngles(seq, lam)

\* lam = 2 pi / th
LambdaOfTurn(th) == IF th > Eps12 THEN FDiv(TwoPi, th) ELSE Scale

\* lam = pi / th if th > 1e-12 else 1.0
LambdaOf(th) == IF th > Eps12 THEN FDiv(Pi, th) ELSE Scale

\* a residual that keeps the sign of w: R = 1 - clip(w, -1, 1)
ROfSigned(w) == Scale - Clip(w, -Scale, Scale)

\* R = 1 - |clip(w, -1, 1)|
ROf(w) == Scale - Abs(Clip(w, -Scale, Scale))

\* return lam, R, theta_net, from q1 the composition of the scaled sequence
EstimateReturn(lam, th, one) ==
    [lam |-> lam, R |-> ROf(quat_mul(one.q, one.q)[1]), th |-> th, heap |-> one.heap]

\* an empty sequence answered with R = 0.0, a perfect reset
EstimateEmptyReset(h) == [lam |-> Scale, R |-> 0, th |-> 0, heap |-> h]

\* if not seq: return 1.0, 1.0, 0.0
EstimateEmpty(h) == [lam |-> Scale, R |-> Scale, th |-> 0, heap |-> h]

\* estimate_lambda_and_R: qnet, theta_net, lam, q1 and the tuple returned,
\* with the heap the two compositions leave
estimate_lambda_and_R(h, seq) ==
    IF seq = << >> THEN EstimateEmpty(h)
    ELSE LET net == compose_seq(h, seq)
             th == quat_to_axang(net.q).th
             lam == LambdaOf(th)
             one == compose_seq(net.heap, ScaleAngles(seq, lam))
         IN  << net, th, lam, one, EstimateReturn(lam, th, one) >>[5]

\* the tuple predict_reset_benefit returns, angles in degrees
PredictReturn(e, th_noreset, th_withreset, h) ==
    [benefit |-> Degrees(th_noreset - th_withreset),
     noreset |-> Degrees(th_noreset), withreset |-> Degrees(th_withreset),
     lam |-> e.lam, R |-> e.R, th |-> e.th, heap |-> h]

\* an empty sequence answered with six zeros
PredictEmptyZeros(h) ==
    [benefit |-> 0, noreset |-> 0, withreset |-> 0,
     lam |-> 0, R |-> 0, th |-> 0, heap |-> h]

\* if not seq: return 0.0, 0.0, 0.0, 1.0, 1.0, 0.0
PredictEmptyReturn(h) ==
    [benefit |-> 0, noreset |-> 0, withreset |-> 0,
     lam |-> Scale, R |-> Scale, th |-> 0, heap |-> h]

\* predict_reset_benefit: the estimate, q_future, the error without reset,
\* q_reset, the error with reset and the tuple returned
predict_reset_benefit(h, seq, q_current) ==
    IF seq = << >> THEN PredictEmptyReturn(h)
    ELSE LET e == estimate_lambda_and_R(h, seq)
             fut == compose_seq(e.heap, seq)
             th_noreset == quat_to_axang(quat_mul(fut.q, q_current)).th
             rst == compose_seq(fut.heap, ScaledTwice(seq, e.lam))
             th_withreset == quat_to_axang(quat_mul(rst.q, q_current)).th
         IN  << e, fut, th_noreset, rst, th_withreset,
                PredictReturn(e, th_noreset, th_withreset, rst.heap) >>[6]

\* ------------------------------------------------------------- bounds

\* accepted pushes of one stream
MaxPush == 3

\* samples of a telemetry series
MaxLen == 4

\* runs of a Monte Carlo call
MaxRuns == 2

\* increments of a Monte Carlo run
MaxSteps == 1

\* calls of run_montecarlo with the same arguments
MaxCalls == 2

\* draws from np.random by other code
MaxDraws == 1

\* window of an analysis
MaxWindow == 2

\* rows of the telemetry the live tab plays
MaxRows == 5

\* rows of reset_events.csv
MaxEvents == 3

\* ---------------------------------------------------------------- state

VARIABLES
    dt,         \* SO3ResetStream.dt
    N,          \* SO3ResetStream.N
    buf,        \* SO3ResetStream.buf: a list of (ref, th)
    heap,       \* the axis arrays the stream allocated, by address
    accepted,   \* history: the increments appended, as appended
    last,       \* history: the last call on the stream and what it returned
    df,         \* analyze_from_quats: the DataFrame passed
    args,       \* analyze_from_quats: window and fps
    out,        \* analyze_from_quats: what the call returned
    rng,        \* the state of the process-wide generator np.random
    mcArgs,     \* run_montecarlo: the arguments of the calls
    mcCalls,    \* history: per call, the generator state it began in and
                \* the table it returned
    mcDraws,    \* history: the draws other code made from np.random
    mcSummary,  \* summarize_results: the table passed and the dict returned
    alg,        \* the quaternion functions: arguments and results
    ss,         \* st.session_state of the live tab: sim_mode, running,
                \* sim_idx, last_event_ts, selected_event
    events,     \* results/reset_events.csv: the rows EventLogger.log appended
    telemetry,  \* full_df: the telemetry the live tab loads
    analysed,   \* candidates_df of analyze_from_quats on the first n rows of
                \* full_df, by n: what a script run computes on its view
    settings,   \* the sidebar widgets of the live tab
    script      \* the last script run: what started it, whether it raised,
                \* whether it ended in st.rerun()

streamVars == << dt, N, buf, heap, accepted, last >>

analyzeVars == << df, args, out >>

mcVars == << rng, mcArgs, mcCalls, mcDraws, mcSummary >>

liveVars == << ss, events, telemetry, analysed, settings, script >>

vars ==
    << dt, N, buf, heap, accepted, last, df, args, out, rng, mcArgs, mcCalls, mcDraws,
       mcSummary, alg, ss, events, telemetry, analysed, settings, script >>

\* a component no call has been made on
Idle == [op |-> "idle"]

StreamIdle ==
    /\ dt = 0 /\ N = 0 /\ buf = << >> /\ heap = << >> /\ accepted = << >>
    /\ last = Idle

AnalyzeIdle == df = Idle /\ args = Idle /\ out = Idle

McIdle ==
    rng = 0 /\ mcArgs = Idle /\ mcCalls = << >> /\ mcDraws = 0 /\ mcSummary = Idle

AlgIdle == alg = Idle

LiveIdle ==
    /\ ss = Idle /\ events = << >> /\ telemetry = Idle /\ analysed = Idle
    /\ settings = Idle /\ script = Idle

\* ------------------------------------------------------- SO3ResetStream

\* (window_sec, dt) of the constructor
StreamConfigs ==
    { << 2000, 2000 >>, << 2000, 1000 >>, << 500, 1000 >>, << 1900, 1000 >> }

\* axes pushed: the zero vector, 2z, x
PushAxes == { << 0, 0, 0 >>, << 0, 0, 2 * Scale >>, << Scale, 0, 0 >> }

\* angles pushed
PushAngles == { 0, 5000 }

\* lam of build_scaled_twice
PushLambdas == { Scale, 2 * Scale }

\* self.N = max(1, int(window_sec / dt))
Capacity(window_sec, d) == Max(1, Trunc(FDiv(window_sec, d)))

InitStream ==
    \E c \in StreamConfigs :
        /\ dt = c[2]
        /\ N = Capacity(c[1], c[2])
        /\ buf = << >>
        /\ heap = << >>
        /\ accepted = << >>
        /\ last = [op |-> "init", window_sec |-> c[1]]
        /\ AnalyzeIdle /\ McIdle /\ AlgIdle /\ LiveIdle

\* a guard that looks at the axis alone
DegenerateAxis(n, dtheta) == Norm3(n) < Eps12

\* the guard of push_axis_angle_increment: the increment is ignored
Degenerate(n, dtheta) == Norm3(n) < Eps12 \/ Abs(dtheta) < Eps12

\* a push that never evicts
EvictNever(b, cap) == b

\* a push that evicts the newest entry: pop() for pop(0)
EvictNewest(b, cap) == IF Len(b) > cap THEN SubSeq(b, 1, Len(b) - 1) ELSE b

\* if len(self.buf) > self.N: self.buf.pop(0)
Evict(b, cap) == IF Len(b) > cap THEN Tail(b) ELSE b

push_axis_angle_increment(n, dtheta) ==
    IF Degenerate(n, dtheta)
    THEN /\ last' = [op |-> "push", accepted |-> FALSE, n |-> n, dtheta |-> dtheta]
         /\ UNCHANGED << dt, N, buf, heap, accepted, analyzeVars, mcVars, alg, liveVars >>
    ELSE /\ Len(accepted) < MaxPush
         /\ heap' = Append(heap, AxisNormalize(n))
         /\ buf' = Evict(Append(buf, [ref |-> Len(heap) + 1, th |-> dtheta]), N)
         /\ accepted' = Append(accepted, [ref |-> Len(heap) + 1, th |-> dtheta])
         /\ last' = [op |-> "push", accepted |-> TRUE, n |-> n, dtheta |-> dtheta]
         /\ UNCHANGED << dt, N, analyzeVars, mcVars, alg, liveVars >>

Push == \E n \in PushAxes, dtheta \in PushAngles : push_axis_angle_increment(n, dtheta)

\* lambda_R_theta, e the return of estimate_lambda_and_R(self.buf)
LambdaRThetaReturn(e) ==
    /\ heap' = e.heap
    /\ last' = [op |-> "lambda_R_theta", ret |-> << e.lam, e.R, e.th >>]
    /\ UNCHANGED << dt, N, buf, accepted, analyzeVars, mcVars, alg, liveVars >>

lambda_R_theta == LambdaRThetaReturn(estimate_lambda_and_R(heap, buf))

build_scaled_twice ==
    \E lam \in PushLambdas :
        /\ last' = [op |-> "build_scaled_twice", lam |-> lam,
                     ret |-> ScaledTwice(buf, lam)]
        /\ UNCHANGED << dt, N, buf, heap, accepted, analyzeVars, mcVars, alg, liveVars >>

NextStream == Push \/ lambda_R_theta \/ build_scaled_twice

Spec == InitStream /\ [][NextStream]_vars

\* ------------------------------------------------------- analyze_from_quats

\* the columns analyze_from_quats requires
QuatColumns == { "qw", "qx", "qy", "qz" }

\* column sets of the frames passed
FrameColumns ==
    { QuatColumns \cup { "timestamp" }, QuatColumns,
      { "qw", "qx", "qy", "timestamp" }, { } }

\* fps passed
FrameRates == { 0, 5 }

\* orientations sampled: a quarter turn about z written with w < 0, a
\* quarter turn about x
Samples == { << -7071, 0, 0, 7071 >>, << 7071, 7071, 0, 0 >> }

\* the timestamp column of row k (1-based), when there is one
StampOf(k) == 2500 * k + 1234

\* the orientation columns passed: motions that come back to their start
\* every third sample
Motions == [1..3 -> Samples]

\* the orientation of row k (1-based) of the motion m
SampleOf(m, k) == m[((k - 1) % 3) + 1]

\* A frame: its columns and its rows.  A row holds the quaternion, the
\* timestamp and whether its values are objects quat_normalize raises on
\* (fractions.Fraction: the products of quat_error turn them into floats,
\* np.linalg.norm finds no sqrt for them).
MotionFrames ==
    { [cols |-> c, rows |-> [k \in 1..n |-> [q |-> SampleOf(m, k), ts |-> StampOf(k), exotic |-> k = x]]] :
        c \in FrameColumns, n \in 0..MaxLen, m \in Motions, x \in 0..MaxLen }

\* row k (1-based) of a rotation about z that advances pi / w per sample
HalfTurnSample(w, k) == axang_to_quat(<< 0, 0, Scale >>, (k - 1) * DivR(Pi, w)).q

\* the series that make a half turn about z over every span of w samples
HalfTurnFrames(w) ==
    { [cols |-> QuatColumns,
       rows |-> [k \in 1..n |-> [q |-> HalfTurnSample(w, k), ts |-> StampOf(k), exotic |-> FALSE]]] :
        n \in 0..MaxLen }

\* the frames passed
Frames == MotionFrames \cup UNION { HalfTurnFrames(w) : w \in 1..MaxWindow }

\* df.empty
DfEmpty(d) == Len(d.rows) = 0 \/ d.cols = { }

\* a difference taken without the conjugate: q_ref * q
QuatErrorProduct(q_ref, q) == quat_mul(q_ref, q)

\* the guard with any for all
MissingEvery(cols) == ~ (\E c \in QuatColumns : c \in cols)

\* not all(c in df.columns for c in ["qw", "qx", "qy", "qz"])
MissingColumns(cols) == ~ (\A c \in QuatColumns : c \in cols)

\* if end <= window
InsufficientData(end, window) == end <= window

\* a loop that runs to the last sample
RowIndicesToEnd(window, end) == window..end

\* range(window, end)
RowIndices(window, end) == window..(end - 1)

\* timestamps[i], i from 0
TimestampAt(d, fps, i) ==
    IF "timestamp" \in d.cols THEN d.rows[i + 1].ts ELSE DivR(i * Scale, Max(fps, 1))

\* quat_error(q_ref, q) = q_ref * conj(q)
quat_error(q_ref, q) == quat_mul(q_ref, quat_conj(q))

\* the increment taken from q2 back to q1: quat_error(q1, q2)
IncrementAtReversed(rows, j) == quat_to_axang(quat_error(rows[j + 1].q, rows[j + 2].q))

\* (n, th) of the pair quats[j], quats[j + 1], j from 0
IncrementAt(rows, j) == quat_to_axang(quat_error(rows[j + 2].q, rows[j + 1].q))

\* seq.append((n, th)): the array n is new, at the next address
WindowStep(w, a) ==
    [heap |-> Append(w.heap, a.n),
     seq |-> Append(w.seq, [ref |-> Len(w.heap) + 1, th |-> a.th])]

\* the loop over j in range(i - window, i) from j on: seq and its arrays
RECURSIVE WindowFrom(_, _, _, _)
WindowFrom(rows, j, i, w) ==
    IF j >= i THEN w
    ELSE Then(WindowStep(w, IncrementAt(rows, j)),
              LAMBDA w1 : WindowFrom(rows, j + 1, i, w1))

\* an except clause that puts 0.0
TryPredictZero(sample, seq, h) ==
    IF sample.exotic THEN 0
    ELSE Then(quat_normalize(sample.q),
              LAMBDA q_current : predict_reset_benefit(h, seq, q_current).benefit)

\* the try block: quat_normalize raises on an exotic sample and the except
\* clause puts NaN
TryPredict(sample, seq, h) ==
    IF sample.exotic THEN NaN
    ELSE Then(quat_normalize(sample.q),
              LAMBDA q_current : predict_reset_benefit(h, seq, q_current).benefit)

\* what the loop appends for one index
MetricRow(ts, e, benefit) ==
    [timestamp |-> ts, R |-> e.R, theta_net_deg |-> Degrees(e.th),
     predicted_benefit_deg |-> benefit]

\* the loop body from the estimate on
RowFromEstimate(sample, ts, seq, e) ==
    Then(TryPredict(sample, seq, e.heap), LAMBDA benefit : MetricRow(ts, e, benefit))

\* the loop body from seq on
RowFromWindow(sample, ts, w) ==
    Then(estimate_lambda_and_R(w.heap, w.seq),
         LAMBDA e : RowFromEstimate(sample, ts, w.seq, e))

\* a loop body that predicts from the sample after the window: quats[i + 1]
RowAtAhead(d, window, fps, i) ==
    Then(WindowFrom(d.rows, i - window, i, [heap |-> << >>, seq |-> << >>]),
         LAMBDA w : RowFromWindow(d.rows[i + 2], TimestampAt(d, fps, i), w))

\* the loop body for index i, from 0
RowAt(d, window, fps, i) ==
    Then(WindowFrom(d.rows, i - window, i, [heap |-> << >>, seq |-> << >>]),
         LAMBDA w : RowFromWindow(d.rows[i + 1], TimestampAt(d, fps, i), w))

\* R < 0.05
RMax == 500

\* theta_net_deg > 1.0
ThetaMin == 10000

\* a mask that forgets the benefit
IsCandidateNoBenefit(r) == FLt(r.R, RMax) /\ FLt(ThetaMin, r.theta_net_deg)

\* a mask that asks for a benefit that is not <= 0, which NaN passes
IsCandidateNotLosing(r) ==
    /\ FLt(r.R, RMax)
    /\ FLt(ThetaMin, r.theta_net_deg)
    /\ ~ (r.predicted_benefit_deg # NaN /\ r.predicted_benefit_deg <= 0)

\* the mask of candidates_df
IsCandidate(r) ==
    /\ FLt(r.R, RMax)
    /\ FLt(ThetaMin, r.theta_net_deg)
    /\ FLt(0, r.predicted_benefit_deg)

\* return pd.DataFrame(), pd.DataFrame()
EmptyTables == [metrics |-> << >>, candidates |-> << >>, raised |-> FALSE]

\* results_df and candidates_df
AnalysisReturn(m) == [metrics |-> m, candidates |-> SelectSeq(m, IsCandidate), raised |-> FALSE]

\* the loop over i from i on: results
RECURSIVE RowsFrom(_, _, _, _, _)
RowsFrom(d, window, fps, i, results) ==
    IF i \notin RowIndices(window, Len(d.rows) - 1) THEN results
    ELSE Then(Append(results, RowAt(d, window, fps, i)),
              LAMBDA appended : RowsFrom(d, window, fps, i + 1, appended))

\* the rows of the loop, in the order appended
MetricRows(d, window, fps) == RowsFrom(d, window, fps, window, << >>)

analyze_from_quats(d, window, fps) ==
    IF DfEmpty(d) \/ MissingColumns(d.cols) THEN EmptyTables
    ELSE IF ~ (QuatColumns \subseteq d.cols)
    THEN [metrics |-> << >>, candidates |-> << >>, raised |-> TRUE]   \* KeyError
    ELSE IF InsufficientData(Len(d.rows) - 1, window) THEN EmptyTables
    ELSE Then(MetricRows(d, window, fps), AnalysisReturn)

InitAnalyze ==
    /\ StreamIdle /\ McIdle /\ AlgIdle /\ LiveIdle
    /\ df \in Frames
    /\ args \in [window : 0..MaxWindow, fps : FrameRates]
    /\ out = Idle

Analyze ==
    /\ out = Idle
    /\ \E ret \in { analyze_from_quats(df, args.window, args.fps) } : out' = ret
    /\ UNCHANGED << df, args, streamVars, mcVars, alg, liveVars >>

NextAnalyze == Analyze

SpecAnalyze == InitAnalyze /\ [][NextAnalyze]_vars

\* ------------------------------------------------------ run_montecarlo

\* The generator np.random: a state, a seeding and a step.  The states of
\* the generator are the residues of RngMod.
RngMod == 8

\* the state the generator steps to on a draw
Advance(r) == (5 * r + 3) % RngMod

\* the standard normal deviate drawn in state r: -1, -0.5, 0, 0.5 or 1
Gauss(r) == ((r % 5) - 2) * (Scale \div 2)

\* a call that does not seed
ReseedNot(r, seed) == r

\* np.random.seed(seed): the state is a function of the seed alone
Reseed(r, seed) == seed % RngMod

\* np.random.randn(3) in state r
Randn3(r) == << Gauss(r), Gauss(Advance(r)), Gauss(Advance(Advance(r))) >>

\* step_mean
StepMean == 200

\* abs(np.random.normal(step_mean, step_std)) in state r
RandTheta(step_std, r) == Abs(StepMean + Mul(step_std, Gauss(r)))

\* seeds passed
Seeds == { 0, 42 }

\* noise_sigma passed
Sigmas == { 0, 100, Scale }

\* random_rotation_seq from step i on: the axis arrays, the sequence and
\* the generator state it leaves; each step draws four deviates
RECURSIVE RandomFrom(_, _, _, _, _, _)
RandomFrom(i, n_steps, step_std, r, h, seq) ==
    IF i > n_steps THEN [heap |-> h, seq |-> seq, rng |-> r]
    ELSE RandomFrom(i + 1, n_steps, step_std, Advance(Advance(Advance(Advance(r)))),
                    Append(h, AxisNormalize(Randn3(r))),
                    Append(seq, [ref |-> i,
                                 th |-> RandTheta(step_std, Advance(Advance(Advance(r))))]))

random_rotation_seq(n_steps, step_std, r) == RandomFrom(1, n_steps, step_std, r, << >>, << >>)

\* q_current = axang_to_quat([0, 0, 1], 0.05)
Nominal == axang_to_quat(<< 0, 0, Scale >>, 500).q

\* results.append(...) that leaves a failed run out
RecordRunSkip(results, row) == IF row[1] = NaN THEN results ELSE Append(results, row)

\* results.append(...)
RecordRun(results, row) == Append(results, row)

\* the row of a run that raised
NaNRow == << NaN, NaN, NaN >>

\* the try block from the estimate on
RunFromEstimate(seq, e) ==
    Then(predict_reset_benefit(e.heap, seq, Nominal),
         LAMBDA p : << e.R, Degrees(e.th), p.benefit >>)

\* the try block of one run and the row it records.  fault: estimate or
\* predict raises in this run.
RunRow(fault, s) ==
    IF fault THEN NaNRow
    ELSE Then(estimate_lambda_and_R(s.heap, s.seq),
              LAMBDA e : RunFromEstimate(s.seq, e))

\* the loop of run_montecarlo from run k on
RECURSIVE RunsFrom(_, _, _, _)
RECURSIVE RunsStep(_, _, _, _, _)
RunsStep(k, a, r, results, s) ==
    Then(RecordRun(results, RunRow(k \in a.faults, s)),
         LAMBDA recorded : RunsFrom(k + 1, a, s.rng, recorded))

RunsFrom(k, a, r, results) ==
    IF k > a.n_runs THEN [table |-> results, rng |-> r]
    ELSE Then(random_rotation_seq(a.n_steps, a.noise_sigma, r),
              LAMBDA s : RunsStep(k, a, r, results, s))

\* run_montecarlo(n_runs, n_steps, noise_sigma, seed) called in generator
\* state r: the table and the state the call leaves
run_montecarlo(a, r) == Then(Reseed(r, a.seed), LAMBDA r0 : RunsFrom(1, a, r0, << >>))

\* the arguments of a call, and the run, if any, in which the estimator or
\* the predictor raises
McCalls ==
    { [n_runs |-> n, n_steps |-> m, noise_sigma |-> sg, seed |-> sd, faults |-> f] :
        n \in 0..MaxRuns, m \in 0..MaxSteps, sg \in Sigmas, sd \in Seeds,
        f \in { { } } \cup { { k } : k \in 1..MaxRuns } }

InitMonteCarlo ==
    /\ StreamIdle /\ AnalyzeIdle /\ AlgIdle /\ LiveIdle
    /\ rng = 0
    /\ mcArgs \in { a \in McCalls : a.faults \subseteq 1..a.n_runs }
    /\ mcCalls = << >>
    /\ mcDraws = 0
    /\ mcSummary = Idle

\* the call returns
McReturn(ret) ==
    /\ mcCalls' = Append(mcCalls, [before |-> rng, table |-> ret.table])
    /\ rng' = ret.rng
    /\ UNCHANGED << mcArgs, mcDraws, mcSummary, streamVars, analyzeVars, alg, liveVars >>

RunMonteCarlo ==
    /\ Len(mcCalls) < MaxCalls
    /\ \E ret \in { run_montecarlo(mcArgs, rng) } : McReturn(ret)

\* other code of the process draws from np.random
DrawElsewhere ==
    /\ mcDraws < MaxDraws
    /\ rng' = Advance(rng)
    /\ mcDraws' = mcDraws + 1
    /\ UNCHANGED << mcArgs, mcCalls, mcSummary, streamVars, analyzeVars, alg, liveVars >>

\* column j of a table, the NaN entries dropped
RECURSIVE Numbers(_, _)
Numbers(table, j) ==
    IF table = << >> THEN << >>
    ELSE IF Head(table)[j] = NaN THEN Numbers(Tail(table), j)
    ELSE << Head(table)[j] >> \o Numbers(Tail(table), j)

RECURSIVE Sum(_)
Sum(xs) == IF xs = << >> THEN 0 ELSE Head(xs) + Sum(Tail(xs))

\* np.mean of the numbers xs; nan of an empty slice
Mean(xs) == IF xs = << >> THEN NaN ELSE DivR(Sum(xs), Len(xs))

\* np.nanmean of column j
NanMean(table, j) == Mean(Numbers(table, j))

\* the squared deviations of xs from m
Deviations(xs, m) == [i \in DOMAIN xs |-> Mul(xs[i] - m, xs[i] - m)]

\* np.nanstd of column j: the root of the mean squared deviation
NanStd(table, j) ==
    IF Numbers(table, j) = << >> THEN NaN
    ELSE Sqrt(Mean(Deviations(Numbers(table, j), NanMean(table, j))))

\* a count in which a NaN compares as a number
CountBelowAll(table, j, bound) == Cardinality({ k \in DOMAIN table : table[k][j] < bound })

\* int((df[column] < bound).sum()): a comparison with NaN is False
CountBelow(table, j, bound) == Cardinality({ k \in DOMAIN table : FLt(table[k][j], bound) })

summarize_results(table) ==
    [mean_R |-> NanMean(table, 1),
     std_R |-> NanStd(table, 1),
     mean_theta_deg |-> NanMean(table, 2),
     mean_benefit_deg |-> NanMean(table, 3),
     reset_opportunities |-> CountBelow(table, 1, RMax)]

\* summarize_results on the table the last call returned
Summarize ==
    /\ mcCalls # << >>
    /\ mcSummary' = [table |-> mcCalls[Len(mcCalls)].table,
                     ret |-> summarize_results(mcCalls[Len(mcCalls)].table)]
    /\ UNCHANGED << rng, mcArgs, mcCalls, mcDraws, streamVars, analyzeVars, alg, liveVars >>

NextMonteCarlo == RunMonteCarlo \/ DrawElsewhere \/ Summarize

SpecMonteCarlo == InitMonteCarlo /\ [][NextMonteCarlo]_vars

\* ------------------------------------------- the quaternion functions

\* components of the quaternions converted
AlgComponents == { -Scale, -5000, 0, 5000, Scale }

\* quaternions converted: every combination but the zero quaternion
AlgQuats ==
    { q \in AlgComponents \X AlgComponents \X AlgComponents \X AlgComponents :
        q # << 0, 0, 0, 0 >> }

\* axes and angles of the one-increment sequences estimated
AlgAxes == { << Scale, 0, 0 >>, << 0, 0, Scale >>, << 6000, 8000, 0 >> }

AlgAngles == { 0, 1000, 5000, 10000, 20000, 30000, Pi }

\* q_current of the predictions: the identity, a quarter turn about x, a
\* third of a turn about (1, 1, 1), a quarter turn about z written with
\* w < 0
AlgCurrents ==
    { Identity, << 7071, 7071, 0, 0 >>, << 5000, 5000, 5000, 5000 >>,
      << -7071, 0, 0, 7071 >> }

\* np.array([]): an argument that cannot be unpacked into w, x, y, z
NoQuat == << >>

\* angles of the two-increment sequences composed
PairAngles == { 5000, 10000, Pi }

\* the lists composed from a two-increment sequence: [], [x1], [x1, x2] and
\* [x2, x1], as the indices taken
PairOrders == { << >>, << 1 >>, << 1, 2 >>, << 2, 1 >> }

\* the list of the increments of seq at the indices order
Picked(seq, order) == [i \in DOMAIN order |-> seq[order[i]]]

\* -q
quat_neg(q) == << -q[1], -q[2], -q[3], -q[4] >>

InitAlgebra ==
    /\ StreamIdle /\ AnalyzeIdle /\ McIdle /\ LiveIdle
    /\ alg \in { [op |-> "quat", q |-> q] : q \in AlgQuats }
             \cup { [op |-> "seq", n |-> n, th |-> th] : n \in AlgAxes, th \in AlgAngles }
             \cup { [op |-> "current", heap |-> << n >>,
                      seq |-> << [ref |-> 1, th |-> th] >>, q |-> q] :
                        n \in AlgAxes, th \in AlgAngles \ { 0 }, q \in AlgCurrents }
             \cup { [op |-> "current", heap |-> << >>, seq |-> << >>, q |-> q] :
                        q \in AlgCurrents \cup { NoQuat } }
             \cup { [op |-> "pair", heap |-> << n1, n2 >>,
                      seq |-> << [ref |-> 1, th |-> th1], [ref |-> 2, th |-> th2] >>] :
                        n1 \in AlgAxes, n2 \in AlgAxes,
                        th1 \in PairAngles, th2 \in PairAngles }

\* quat_to_axang(q) and quat_to_axang(-q)
ToAxisAngle ==
    /\ alg.op = "quat"
    /\ alg' = [op |-> "axang", q |-> alg.q,
               of_q |-> quat_to_axang(alg.q),
               of_neg |-> quat_to_axang(quat_neg(alg.q))]
    /\ UNCHANGED << streamVars, analyzeVars, mcVars, liveVars >>

\* estimate_lambda_and_R([(n, th)]) and estimate_lambda_and_R([(n, th + 2 pi)]):
\* the same rotation, the net quaternions of opposite sign
EstimateBothSigns ==
    /\ alg.op = "seq"
    /\ alg' = [op |-> "estimate", n |-> alg.n, th |-> alg.th,
               net |-> compose_seq(<< alg.n >>, << [ref |-> 1, th |-> alg.th] >>).q,
               net_turn |-> compose_seq(<< alg.n >>,
                                        << [ref |-> 1, th |-> alg.th + TwoPi] >>).q,
               theta |-> estimate_lambda_and_R(
                             << alg.n >>, << [ref |-> 1, th |-> alg.th] >>).th,
               lam |-> estimate_lambda_and_R(
                             << alg.n >>, << [ref |-> 1, th |-> alg.th] >>).lam,
               theta_turn |-> estimate_lambda_and_R(
                             << alg.n >>, << [ref |-> 1, th |-> alg.th + TwoPi] >>).th]
    /\ UNCHANGED << streamVars, analyzeVars, mcVars, liveVars >>

\* the six floats predict_reset_benefit returns
PredictTuple(p) == << p.benefit, p.noreset, p.withreset, p.lam, p.R, p.th >>

\* predict_reset_benefit(seq, q) and predict_reset_benefit(seq, -q), seq of
\* one increment or empty
PredictBothSigns ==
    /\ alg.op = "current"
    /\ alg' = [op |-> "predict", seq |-> alg.seq, q |-> alg.q,
               of |-> [neg \in BOOLEAN |->
                          Then(predict_reset_benefit(
                                   alg.heap, alg.seq,
                                   IF neg THEN quat_neg(alg.q) ELSE alg.q),
                               PredictTuple)]]
    /\ UNCHANGED << streamVars, analyzeVars, mcVars, liveVars >>

\* compose_seq on [], [x1], [x1, x2] and [x2, x1], and the product
\* quat_mul(axang_to_quat(x2), compose_seq([x1]))
ComposeOrders ==
    /\ alg.op = "pair"
    /\ alg' = [op |-> "compose", heap |-> alg.heap, seq |-> alg.seq,
               of |-> [order \in PairOrders |->
                          compose_seq(alg.heap, Picked(alg.seq, order)).q],
               step |-> quat_mul(axang_to_quat(alg.heap[2], alg.seq[2].th).q,
                                 compose_seq(alg.heap, Picked(alg.seq, << 1 >>)).q)]
    /\ UNCHANGED << streamVars, analyzeVars, mcVars, liveVars >>

\* quat_mul(q, identity) and quat_mul(identity, q)
MultiplyIdentity ==
    /\ alg.op = "quat"
    /\ alg' = [op |-> "identity", q |-> alg.q,
               right |-> quat_mul(alg.q, Identity),
               left |-> quat_mul(Identity, alg.q)]
    /\ UNCHANGED << streamVars, analyzeVars, mcVars, liveVars >>

NextAlgebra ==
    \/ ToAxisAngle
    \/ EstimateBothSigns
    \/ PredictBothSigns
    \/ ComposeOrders
    \/ MultiplyIdentity

SpecAlgebra == InitAlgebra /\ [][NextAlgebra]_vars

\* ------------------------------------------------------------ the live tab

\* last_event_ts while no event is held: -1e18, under every timestamp
NoEvent == -1000000000

\* round(x) of a float x >= 0: the nearest integer, a tie to the even one
RoundHalfEven(x) ==
    IF 2 * (x % Scale) < Scale THEN x \div Scale
    ELSE IF 2 * (x % Scale) > Scale THEN x \div Scale + 1
    ELSE x \div Scale + ((x \div Scale) % 2)

\* the k-th smallest of the floats xs, k from 1
Kth(xs, k) ==
    CHOOSE x \in { xs[i] : i \in DOMAIN xs } :
        /\ Cardinality({ i \in DOMAIN xs : xs[i] < x }) < k
        /\ Cardinality({ i \in DOMAIN xs : xs[i] <= x }) >= k

\* np.median(xs), xs not empty
Median(xs) == DivR(Kth(xs, (Len(xs) + 1) \div 2) + Kth(xs, (Len(xs) + 2) \div 2), 2)

\* np.diff(full_df["timestamp"].values)
StampDiffs(rows) == [i \in 1..(Len(rows) - 1) |-> rows[i + 1].ts - rows[i].ts]

\* src_hz: the sample rate of the telemetry, from the median step of its
\* timestamps (no less than 1e-6, here one unit) or the assumed fps
src_hz(d, fps_assumed) ==
    IF "timestamp" \in d.cols /\ Len(d.rows) > 1
    THEN FDiv(Scale, Max(Median(StampDiffs(d.rows)), 1))
    ELSE fps_assumed * Scale

\* a step without the floor of one frame: max(0, ...)
FramesPerTickFloorless(speed, hz, refresh_hz) ==
    Max(0, RoundHalfEven(DivR(Mul(speed, hz), refresh_hz)))

\* frames_per_tick = max(1, int(round(speed * src_hz / refresh_hz)))
frames_per_tick(speed, hz, refresh_hz) ==
    Max(1, RoundHalfEven(DivR(Mul(speed, hz), refresh_hz)))

\* the telemetry loaded: n samples 0.25 s apart, with or without a
\* timestamp column, of a body that starts a quarter turn from the reference,
\* makes quarter turns about z up to sample m and rests from there on
LiveFrames ==
    { [cols |-> c,
       rows |-> [k \in 1..n |->
                   [q |-> HalfTurnSample(2, Min(k, m) + 1), ts |-> StampOf(k), exotic |-> FALSE]]] :
        c \in { QuatColumns \cup { "timestamp" }, QuatColumns },
        n \in { 1, 2, MaxRows - 1, MaxRows }, m \in { 2, MaxRows } }

\* playback speed and refresh rate: 0.5 at 20 Hz, 1.0 at 2 Hz
PlaybackRates == { [speed |-> Scale \div 2, refresh_hz |-> 20], [speed |-> Scale, refresh_hz |-> 2] }

\* the sliders of the sidebar: window, speed and refresh rate, assumed fps
\* (adaptive window off, its default)
LiveSettings == [window : { 1, MaxWindow }, rate : PlaybackRates, fps_assumed : { 5 }]

\* the toggles of the sidebar, as they stand when a script run reads them
EventToggles == [log_events : BOOLEAN, pause_on_reset : BOOLEAN]

\* timestamps of the events of reset_events.csv offered for replay
ReplayStamps == { StampOf(3), -Scale }

\* d.iloc[:n]
FirstRows(d, n) == [d EXCEPT !.rows = SubSeq(d.rows, 1, Min(Len(d.rows), n))]

\* the session defaults, before the first script run
InitLive ==
    /\ StreamIdle /\ AnalyzeIdle /\ McIdle /\ AlgIdle
    /\ ss = [sim_mode |-> TRUE, running |-> FALSE, sim_idx |-> 0,
             last_event_ts |-> NoEvent, selected_event |-> << >>]
    /\ events = << >>
    /\ telemetry \in LiveFrames
    /\ settings \in LiveSettings
    /\ analysed = [n \in 0..Len(telemetry.rows) |->
                      analyze_from_quats(FirstRows(telemetry, n), settings.window,
                                         settings.fps_assumed).candidates]
    /\ script = [run |-> "init", raised |-> FALSE, rerun |-> TRUE]

\* the replay trigger at the top of the script: an event selected in the
\* analysis tab stops playback and becomes the event held
ConsumeEvent(s) ==
    IF s.selected_event # << >>
    THEN [s EXCEPT !.sim_mode = TRUE, !.running = FALSE,
                   !.last_event_ts = s.selected_event[1]]
    ELSE s

\* simulation progression by f frames over n rows
Progress(s, f, n) ==
    IF ~ (s.sim_mode /\ s.running) THEN s
    ELSE IF s.sim_idx + f >= n THEN [s EXCEPT !.sim_idx = n, !.running = FALSE]
    ELSE [s EXCEPT !.sim_idx = s.sim_idx + f]

\* full_df.iloc[:max(2, sim_idx)] in simulation mode, full_df otherwise
view_df(d, s) == IF s.sim_mode THEN FirstRows(d, Max(2, s.sim_idx)) ELSE d

\* (full_df["timestamp"] - t).abs().idxmin(): the first index, from 0, of a
\* row nearest to t
closest_idx(d, t) ==
    CHOOSE i \in 0..(Len(d.rows) - 1) :
        /\ \A j \in 0..(Len(d.rows) - 1) : Abs(d.rows[j + 1].ts - t) >= Abs(d.rows[i + 1].ts - t)
        /\ \A j \in 0..(i - 1) : Abs(d.rows[j + 1].ts - t) > Abs(d.rows[i + 1].ts - t)

\* the replay jump: sim_idx = max(window + 1, closest_idx), and the event
\* selected is deleted
ReplayJump(s, d, window) ==
    IF s.selected_event # << >> /\ "timestamp" \in d.cols
    THEN [s EXCEPT !.sim_idx = Max(window + 1, closest_idx(d, s.selected_event[1])),
                   !.selected_event = << >>]
    ELSE s

\* the latest candidate is handled: there is one, playback is running and
\* latest_ts > last_event_ts
Fresh(s, cands) ==
    /\ cands # << >> /\ s.running
    /\ FLt(s.last_event_ts, cands[Len(cands)].timestamp)

\* the row event_logger.log appends, if any
Logged(s, cands, toggles) ==
    IF Fresh(s, cands) /\ toggles.log_events THEN << cands[Len(cands)] >> ELSE << >>

\* pause on the opportunity and the debounce tracker
Debounced(s, cands, toggles) ==
    IF Fresh(s, cands)
    THEN [s EXCEPT !.running = @ /\ ~ toggles.pause_on_reset,
                   !.last_event_ts = cands[Len(cands)].timestamp]
    ELSE s

\* highlight_ts = last_event_ts if last_event_ts > 0 else None, and after
\* the plot: if highlight_ts: last_event_ts = -1e18
Highlight(s) == IF s.last_event_ts > 0 THEN [s EXCEPT !.last_event_ts = NoEvent] ELSE s

\* the script up to the progression
Progressed(s, d, set) ==
    Progress(ConsumeEvent(s),
             frames_per_tick(set.rate.speed, src_hz(d, set.fps_assumed), set.rate.refresh_hz),
             Len(d.rows))

\* the rows a playback started now can still log: a tick logs when its view
\* holds window + 2 rows and playback runs on, short of the last row
LogsAhead == Max(0, Len(telemetry.rows) - Max(ss.sim_idx + 1, settings.window + 2))

\* > Start: running = True, st.rerun()
PressStart ==
    /\ script # Idle
    /\ Len(events) + LogsAhead <= MaxEvents
    /\ ss' = [ConsumeEvent(ss) EXCEPT !.running = TRUE]
    /\ script' = [run |-> "start", raised |-> FALSE, rerun |-> TRUE]
    /\ UNCHANGED << events, telemetry, analysed, settings, streamVars, analyzeVars, mcVars, alg >>

\* Pause: running = False, st.rerun()
PressPause ==
    /\ script # Idle
    /\ ss' = [ConsumeEvent(ss) EXCEPT !.running = FALSE]
    /\ script' = [run |-> "pause", raised |-> FALSE, rerun |-> TRUE]
    /\ UNCHANGED << events, telemetry, analysed, settings, streamVars, analyzeVars, mcVars, alg >>

\* the final report is asked for: was_running and auto_report and not
\* current_view_df.empty
ReportDue(s, d, auto_report) == s.running /\ auto_report /\ view_df(d, s).rows # << >>

\* Stop: running = False; when the report is due, the call of
\* analyze_from_quats reads eff_window, a local assigned further down, and
\* the run ends there in UnboundLocalError; otherwise sim_idx = 0,
\* last_event_ts = -1e18, st.rerun()
PressStop ==
    /\ script # Idle
    /\ \E auto_report \in BOOLEAN :
          IF ReportDue(ConsumeEvent(ss), telemetry, auto_report)
          THEN /\ ss' = [ConsumeEvent(ss) EXCEPT !.running = FALSE]
               /\ script' = [run |-> "stop", raised |-> TRUE, rerun |-> FALSE]
          ELSE /\ ss' = [ConsumeEvent(ss) EXCEPT !.running = FALSE, !.sim_idx = 0,
                                                !.last_event_ts = NoEvent]
               /\ script' = [run |-> "stop", raised |-> FALSE, rerun |-> TRUE]
    /\ UNCHANGED << events, telemetry, analysed, settings, streamVars, analyzeVars, mcVars, alg >>

\* a script run with no button pressed, the rerun a running playback asks
\* for or any other interaction: replay trigger and progression (s1), the
\* view and its analysis (cands), replay jump (s2), logging, pause and
\* highlight (s3), and st.rerun() if still running
Rerun ==
    /\ script # Idle
    /\ \E toggles \in EventToggles, s1 \in { Progressed(ss, telemetry, settings) } :
          \E s2 \in { ReplayJump(s1, telemetry, settings.window) },
             cands \in { analysed[Len(view_df(telemetry, s1).rows)] } :
             \E s3 \in { Highlight(Debounced(s2, cands, toggles)) } :
                /\ ss' = s3
                /\ events' = events \o Logged(s2, cands, toggles)
                /\ script' = [run |-> "none", raised |-> FALSE, rerun |-> s3.running]
    /\ UNCHANGED << telemetry, analysed, settings, streamVars, analyzeVars, mcVars, alg >>

\* a domain button or the domain selectbox: sim_idx = 0, running = False
\* (the domains load the same file)
DomainSwitch ==
    /\ script # Idle
    /\ ss' = [ss EXCEPT !.sim_idx = 0, !.running = FALSE]
    /\ script' = [run |-> "domain", raised |-> FALSE, rerun |-> TRUE]
    /\ UNCHANGED << events, telemetry, analysed, settings, streamVars, analyzeVars, mcVars, alg >>

\* the replay button of the analysis tab, drawn once a script run has ended
\* without st.rerun(): selected_event = dict(row), st.rerun()
PressReplay ==
    /\ script # Idle /\ ~ script.rerun /\ ~ ss.running
    /\ \E t \in ReplayStamps : ss' = [ss EXCEPT !.selected_event = << t >>]
    /\ script' = [run |-> "replay", raised |-> FALSE, rerun |-> TRUE]
    /\ UNCHANGED << events, telemetry, analysed, settings, streamVars, analyzeVars, mcVars, alg >>

NextLive == PressStart \/ PressPause \/ PressStop \/ Rerun \/ DomainSwitch \/ PressReplay

SpecLive == InitLive /\ [][NextLive]_vars

\* the rerun the script asked for with st.rerun()
Tick == script.rerun /\ Rerun

\* st.rerun() is followed by a script run
SpecLiveFair == InitLive /\ [][NextLive]_vars /\ WF_vars(Tick)

\* one pass of playback: Start, Pause and reruns, without Stop, domain
\* switch or replay
NextPass == PressStart \/ PressPause \/ Rerun

SpecPass == InitLive /\ [][NextPass]_vars

\* ------------------------------------------------ claims on the stream

\* what the buffer stores: every axis and every angle, in order
Contents == [i \in DOMAIN buf |-> [n |-> heap[buf[i].ref], th |-> buf[i].th]]

\* C1: after any sequence of pushes the stream holds between 0 and N
\* increments.
C1_BufferBounded == Len(buf) \in 0..N

\* a push has overflowed a full buffer
C1_Witness == Len(accepted) > N /\ Len(buf) = N

\* C2: after k accepted pushes the buffer holds the last min(k, N) accepted
\* increments (the arrays appended, with their angles), in the order pushed;
\* so what overflow evicted is the oldest.
C2_Fifo ==
    LET k == Len(accepted)
        m == Min(k, N)
    IN  /\ Len(buf) = m
        /\ \A i \in 1..m : /\ buf[i].ref = accepted[k - m + i].ref
                           /\ buf[i].th = accepted[k - m + i].th

\* a buffer of two or more has evicted an entry
C2_Witness == N >= 2 /\ Len(accepted) > N /\ Len(buf) = N

\* C3: lambda_R_theta and build_scaled_twice leave every stored axis and
\* every stored angle as they were.
C3_QueriesReadOnly ==
    [][last'.op \in {"lambda_R_theta", "build_scaled_twice"} => Contents' = Contents]_vars

\* C12: the capacity is max(1, round(window_sec / dt)), the quotient
\* rounded to the nearest integer.
C12_CapacityRounds == last.op = "init" => N = Max(1, DivR(last.window_sec, dt))

\* C13: a push whose axis has norm < 1e-12 or whose angle has
\* |dtheta| < 1e-12 changes nothing: the buffer keeps its length, its
\* entries and their order, and nothing is evicted.
C13_DegenerateNoOp ==
    [][(/\ last'.op = "push"
        /\ (Norm3(last'.n) < Eps12 \/ Abs(last'.dtheta) < Eps12))
            => buf' = buf /\ Contents' = Contents /\ accepted' = accepted]_vars

\* a full buffer has been pushed a zero angle about a good axis
C13_Witness ==
    /\ last.op = "push" /\ ~ last.accepted
    /\ Norm3(last.n) >= Eps12 /\ Abs(last.dtheta) < Eps12
    /\ Len(buf) = N /\ Len(accepted) > N

\* C14: build_scaled_twice(lam) on a buffer of k increments returns 2k
\* entries, entries i and k + i both the array n_i with the angle
\* lam * th_i, in buffer order; on an empty buffer it returns [].
C14_ScaledTwice ==
    last.op = "build_scaled_twice" =>
        /\ Len(last.ret) = 2 * Len(buf)
        /\ \A i \in DOMAIN buf : \A j \in { i, Len(buf) + i } :
               /\ last.ret[j].ref = buf[i].ref
               /\ last.ret[j].th = DivR(last.lam * buf[i].th, Scale)

\* two increments scaled by 2
C14_Witness ==
    /\ last.op = "build_scaled_twice" /\ last.lam = 2 * Scale
    /\ Len(buf) = 2 /\ Len(last.ret) = 4 /\ last.ret[3].th = 2 * buf[1].th

\* C15: estimate_lambda_and_R on an empty sequence returns (1.0, 1.0, 0.0):
\* so does lambda_R_theta on a stream that has accepted no push.
C15_EmptyEstimate ==
    last.op = "lambda_R_theta" /\ accepted = << >> => last.ret = << Scale, Scale, 0 >>

\* the estimate asked of a stream that has accepted no push
C15_Witness == last.op = "lambda_R_theta" /\ accepted = << >> /\ buf = << >>

\* ---------------------------------------------- claims on the analyzer

\* the call has returned
Analyzed == out # Idle

\* the indices of the rows of m that meet the three thresholds
Qualifying(m) ==
    { k \in DOMAIN m :
        /\ m[k].R # NaN /\ m[k].R < 500
        /\ m[k].theta_net_deg # NaN /\ m[k].theta_net_deg > 10000
        /\ m[k].predicted_benefit_deg # NaN /\ m[k].predicted_benefit_deg > 0 }

\* C4: the candidates are exactly the metric rows with R < 0.05,
\* theta_net_deg > 1.0 and predicted_benefit_deg > 0, in row order (the r-th
\* candidate is the r-th qualifying row), and the metrics keep every row.
C4_CandidatesExact ==
    Analyzed =>
        /\ Len(out.candidates) = Cardinality(Qualifying(out.metrics))
        /\ \A r \in DOMAIN out.candidates :
              \E k \in Qualifying(out.metrics) :
                  /\ out.candidates[r] = out.metrics[k]
                  /\ Cardinality({ j \in Qualifying(out.metrics) : j < k }) = r - 1
        /\ Len(out.metrics) >= Len(out.candidates)

\* two rows, the first rejected on its benefit alone and the second kept
C4_Witness ==
    /\ Analyzed /\ Len(out.metrics) = 2
    /\ out.metrics[1].R < 500 /\ out.metrics[1].theta_net_deg > 10000
    /\ out.metrics[1].predicted_benefit_deg < 0
    /\ out.candidates = << out.metrics[2] >>

\* C5: an empty series, a series lacking one of qw, qx, qy, qz, or one with
\* len(series) <= window + 1 gives two empty tables and raises nothing.
C5_EmptyOnPrecondition ==
    (/\ Analyzed
     /\ \/ Len(df.rows) = 0
        \/ ~ (QuatColumns \subseteq df.cols)
        \/ Len(df.rows) <= args.window + 1)
        => out = [metrics |-> << >>, candidates |-> << >>, raised |-> FALSE]

\* a long enough series that lacks only qz
C5_Witness ==
    /\ Analyzed /\ Len(df.rows) > args.window + 1
    /\ df.cols = { "qw", "qx", "qy", "timestamp" }
    /\ out.metrics = << >> /\ ~ out.raised

\* C6: with len(series) > window + 1 there is one row per index
\* i = window .. len - 2, in increasing i, carrying the sample's own
\* timestamp, or i / max(fps, 1) when there is no timestamp column.
C6_RowPerIndex ==
    (Analyzed /\ QuatColumns \subseteq df.cols /\ Len(df.rows) > args.window + 1) =>
        /\ Len(out.metrics) = Len(df.rows) - 1 - args.window
        /\ \A k \in DOMAIN out.metrics :
              out.metrics[k].timestamp =
                  IF "timestamp" \in df.cols THEN df.rows[args.window + k].ts
                  ELSE DivR((args.window + k - 1) * Scale, IF args.fps > 1 THEN args.fps ELSE 1)

\* three rows from synthesized timestamps with fps below 1
C6_Witness ==
    /\ Analyzed /\ "timestamp" \notin df.cols /\ args.fps = 0
    /\ Len(out.metrics) = 3 /\ out.metrics[3].timestamp = 2 * Scale

\* the frame with every sample a float array
AllFloat(d) ==
    [cols |-> d.cols,
     rows |-> [k \in DOMAIN d.rows |-> [q |-> d.rows[k].q, ts |-> d.rows[k].ts, exotic |-> FALSE]]]

\* row k of m and of c agree but for the benefit, NaN where the sample fails
SameButBenefit(m, c, k, fails) ==
    /\ m[k].timestamp = c[k].timestamp
    /\ m[k].R = c[k].R
    /\ m[k].theta_net_deg = c[k].theta_net_deg
    /\ m[k].predicted_benefit_deg = IF fails THEN NaN ELSE c[k].predicted_benefit_deg

\* the metrics against c, the metrics of the same series without failure
SameRows(c) ==
    /\ Len(out.metrics) = Len(c)
    /\ \A k \in DOMAIN c : SameButBenefit(out.metrics, c, k, df.rows[args.window + k].exotic)

\* C7: when the predictor call fails at one window position, the row is
\* emitted with predicted_benefit_deg = NaN and the R, theta_net_deg and
\* timestamp of the run without failure, and every other row is as in that
\* run: the number of rows is the same.
C7_FailureIsolated ==
    Analyzed => SameRows(analyze_from_quats(AllFloat(df), args.window, args.fps).metrics)

\* the predictor failed on the first of three rows
C7_Witness ==
    /\ Analyzed /\ Len(out.metrics) = 3
    /\ out.metrics[1].predicted_benefit_deg = NaN
    /\ out.metrics[2].predicted_benefit_deg # NaN
    /\ out.metrics[3].predicted_benefit_deg # NaN

\* the window of increments behind metric row k (1-based)
WindowOfRow(k) ==
    WindowFrom(df.rows, k - 1, args.window + k - 1, [heap |-> << >>, seq |-> << >>])

\* the sum of the angles of seq
RECURSIVE SumAngles(_)
SumAngles(seq) == IF seq = << >> THEN 0 ELSE Head(seq).th + SumAngles(Tail(seq))

\* the estimate on w is that of a half turn: angles summing to pi,
\* lam = 1.0 and R = 0 (angles to a thousandth of a radian, lam and R to a
\* thousandth)
HalfTurnEstimate(w, e) ==
    /\ Abs(SumAngles(w.seq) - Pi) <= 10
    /\ Abs(e.lam - Scale) <= 10
    /\ Abs(e.R) <= 10

Constant(d) == \A k \in DOMAIN d.rows : d.rows[k].q = d.rows[1].q

\* the least angle above zero the floats resolve, in degrees: that of a
\* quaternion with w one unit under 1
ResolvedDeg == Degrees(AngleOfW(Scale - 1))

QuatClose(a, b, d) == \A k \in 1..4 : Abs(a[k] - b[k]) <= d

\* the composition of the increments behind metric row k
ComposedWindow(k) == compose_seq(WindowOfRow(k).heap, WindowOfRow(k).seq).q

\* quats[i] * conj(quats[i - window]) for metric row k, i = window + k - 1
AcrossWindow(k) == quat_mul(df.rows[args.window + k].q, quat_conj(df.rows[k].q))

\* C23: the increments of a window telescope: composed, the window
\* increments of index i give quats[i] * conj(quats[i - window]) (components
\* equal to 5 units of 1 / Scale).
C23_Telescope ==
    Analyzed => \A k \in DOMAIN out.metrics : QuatClose(ComposedWindow(k), AcrossWindow(k), 5)

\* a window of two increments between two different orientations
C23_Witness ==
    /\ Analyzed /\ args.window = 2 /\ Len(out.metrics) = 1
    /\ df.rows[1].q # df.rows[2].q /\ df.rows[2].q # df.rows[3].q
    /\ ~ QuatClose(AcrossWindow(1), Identity, 1000)
    /\ QuatClose(ComposedWindow(1), AcrossWindow(1), 5)

\* C28: every metric row has 0 <= R <= 1, and so has the estimate on the
\* window of increments behind it.
C28_RInUnit ==
    Analyzed =>
        \A k \in DOMAIN out.metrics :
            /\ 0 <= out.metrics[k].R /\ out.metrics[k].R <= Scale
            /\ out.metrics[k].R = estimate_lambda_and_R(WindowOfRow(k).heap, WindowOfRow(k).seq).R

\* two rows over windows of one half turn each, whose twice-applied
\* quaternion has w = -1 and R = 0
C28_Witness ==
    /\ Analyzed /\ args.window = 1 /\ df \in HalfTurnFrames(1)
    /\ Len(out.metrics) = 2
    /\ \A k \in 1..2 : 0 <= out.metrics[k].R /\ out.metrics[k].R <= 10

\* C29: a metric row whose predicted_benefit_deg is NaN is no candidate,
\* whatever its R and theta_net_deg: no candidate has a NaN benefit, and the
\* candidates are as many as the metric rows that qualify with a number.
C29_NaNNeverCandidate ==
    Analyzed =>
        /\ \A c \in DOMAIN out.candidates : out.candidates[c].predicted_benefit_deg # NaN
        /\ Len(out.candidates) = Cardinality(Qualifying(out.metrics))

\* a row with R < 0.05 and theta_net_deg > 1.0 whose prediction failed, left
\* out of the candidates
C29_Witness ==
    /\ Analyzed /\ Len(out.metrics) >= 1
    /\ out.metrics[1].predicted_benefit_deg = NaN
    /\ out.metrics[1].R < 500 /\ out.metrics[1].theta_net_deg > 10000
    /\ \A c \in DOMAIN out.candidates : out.candidates[c] # out.metrics[1]

\* the frame d with the quaternion of its last row replaced by q, of
\* objects quat_normalize raises on when x
LastReplaced(d, q, x) ==
    [d EXCEPT !.rows[Len(d.rows)] = [@ EXCEPT !.q = q, !.exotic = x]]

\* the quaternions put in the last row: the samples, and one of norm 2
\* whose values are objects quat_normalize raises on
LastQuats == Samples \cup { << 0, 2 * Scale, 0, 0 >> }

\* C30: the tables do not depend on the quaternion of the last sample: a
\* frame of the same length and timestamps that differs only there gives
\* the same metrics and candidates.
C30_LastSampleFree ==
    Analyzed /\ Len(df.rows) > args.window + 1 =>
        \A q \in LastQuats :
            analyze_from_quats(LastReplaced(df, q, q \notin Samples), args.window, args.fps) = out

\* two metric rows of a frame of four samples, the same with the last
\* sample replaced by another orientation
C30_Witness ==
    /\ Analyzed /\ Len(df.rows) = 4 /\ args.window = 1 /\ Len(out.metrics) = 2
    /\ \E q \in LastQuats :
           /\ q # df.rows[4].q
           /\ analyze_from_quats(LastReplaced(df, q, FALSE), args.window, args.fps) = out

\* ------------------------------------------- claims on the Monte Carlo

\* C8: calls of run_montecarlo with the same arguments return identical
\* tables, whatever was drawn from np.random before each.
C8_Deterministic ==
    \A i, j \in DOMAIN mcCalls : mcCalls[i].table = mcCalls[j].table

\* two calls of two runs, begun in different generator states
C8_Witness ==
    /\ Len(mcCalls) = 2 /\ mcArgs.n_runs = 2 /\ mcArgs.n_steps = 1
    /\ mcArgs.faults = { }
    /\ mcCalls[1].before # mcCalls[2].before

\* C9: the table has n_runs rows in run order; the row of a run in which
\* estimate or predict raised is (NaN, NaN, NaN), and every other run,
\* also after a failed one, is recorded with its three numbers.
C9_RowPerRun ==
    \A c \in DOMAIN mcCalls :
        /\ Len(mcCalls[c].table) = mcArgs.n_runs
        /\ \A k \in 1..mcArgs.n_runs :
              IF k \in mcArgs.faults THEN mcCalls[c].table[k] = << NaN, NaN, NaN >>
              ELSE \A j \in 1..3 : mcCalls[c].table[k][j] # NaN

\* the first of two runs raised and the second was recorded
C9_Witness ==
    /\ Len(mcCalls) >= 1 /\ mcArgs.n_runs = 2 /\ mcArgs.faults = { 1 }
    /\ mcArgs.n_steps = 1
    /\ mcCalls[1].table[1] = << NaN, NaN, NaN >>
    /\ mcCalls[1].table[2][1] # NaN

\* C21: reset_opportunities is the number of rows whose R is a number below
\* 0.05: a failed row (R = NaN) is not counted, and the count is at most the
\* number of rows.
C21_OpportunityCount ==
    mcSummary # Idle =>
        /\ mcSummary.ret.reset_opportunities
               = Cardinality({ k \in DOMAIN mcSummary.table :
                                 /\ mcSummary.table[k][1] # NaN
                                 /\ mcSummary.table[k][1] < 500 })
        /\ mcSummary.ret.reset_opportunities <= Len(mcSummary.table)

\* a failed row and a row with R < 0.05 summarized
C21_Witness ==
    /\ mcSummary # Idle /\ Len(mcSummary.table) = 2
    /\ mcSummary.table[1] = NaNRow
    /\ mcSummary.ret.reset_opportunities = 1

\* --------------------------------- claims on the quaternion functions

\* C10: quat_to_axang returns the same angle for q and -q, and theta_net of
\* the estimate is the same for net quaternions of opposite sign (angles
\* equal to a thousandth of a radian).
C10_AngleSignFree ==
    /\ alg.op = "axang" => Abs(alg.of_q.th - alg.of_neg.th) <= 10
    /\ alg.op = "estimate" => Abs(alg.theta - alg.theta_turn) <= 10

\* C11: predict_reset_benefit returns the same benefit and the same two
\* residuals for q_current and -q_current, for every non-empty sequence
\* (degrees equal to a tenth of a degree).
C11_PredictSignFree ==
    alg.op = "predict" /\ alg.seq # << >> =>
        \A k \in 1..3 : Abs(alg.of[FALSE][k] - alg.of[TRUE][k]) <= 1000

\* C16: predict_reset_benefit on the empty sequence returns
\* (0, 0, 0, 1, 1, 0) whatever q_current is, an array that cannot be read
\* included.
C16_PredictEmpty ==
    alg.op = "predict" /\ alg.seq = << >> =>
        \A neg \in BOOLEAN : alg.of[neg] = << 0, 0, 0, Scale, Scale, 0 >>

\* the empty sequence predicted with an array of no components
C16_Witness == alg.op = "predict" /\ alg.seq = << >> /\ alg.q = NoQuat

\* C17: for a non-empty sequence lam is pi / theta_net when
\* theta_net > 1e-12 and 1.0 otherwise; a net angle of pi gives lam = 1.0.
C17_LambdaOfTheta ==
    alg.op = "estimate" =>
        /\ alg.theta > Eps12 => alg.lam = DivR(Pi * Scale, alg.theta)
        /\ alg.theta <= Eps12 => alg.lam = Scale
        /\ alg.theta = Pi => alg.lam = Scale

\* a half turn estimated
C17_Witness == alg.op = "estimate" /\ alg.th = Pi /\ alg.theta = Pi

\* C20: quat_mul(q, [1, 0, 0, 0]) = q and quat_mul([1, 0, 0, 0], q) = q for
\* every quaternion q.
C20_IdentityTwoSided ==
    alg.op = "identity" => alg.right = alg.q /\ alg.left = alg.q

\* a quaternion of four non-zero components multiplied
C20_Witness ==
    /\ alg.op = "identity" /\ alg.q = << 5000, 5000, -5000, Scale >>
    /\ alg.right = alg.q /\ alg.left = alg.q

\* C22: compose_seq([]) is the identity, and compose_seq(s + [x]) =
\* quat_mul(axang_to_quat(x), compose_seq(s)): the increments are applied
\* in order, each on the left (components equal to 3 units).
C22_LeftFold ==
    alg.op = "compose" =>
        /\ QuatClose(alg.of[<< >>], Identity, 3)
        /\ QuatClose(alg.of[<< 1, 2 >>], alg.step, 3)

\* two increments about different axes, whose order changes the result
C22_Witness ==
    /\ alg.op = "compose" /\ alg.heap[1] # alg.heap[2]
    /\ QuatClose(alg.of[<< 1, 2 >>], alg.step, 3)
    /\ ~ QuatClose(alg.of[<< 1, 2 >>], alg.of[<< 2, 1 >>], 100)

\* ---------------------------------------------- claims on the live tab

\* C24: a reset opportunity is logged at most once: reset_events.csv holds
\* no two rows of the same timestamp.
C24_LoggedOnce ==
    \A i \in DOMAIN events, j \in DOMAIN events :
        i # j => events[i].timestamp # events[j].timestamp

\* C25: a script run started by Stop completes, with running = False,
\* sim_idx = 0 and last_event_ts = -1e18.
C25_StopResets ==
    script.run = "stop" =>
        /\ ~ script.raised
        /\ ~ ss.running /\ ss.sim_idx = 0 /\ ss.last_event_ts = NoEvent

\* C26: 0 <= sim_idx <= len(full_df).
C26_IndexInRange == 0 <= ss.sim_idx /\ ss.sim_idx <= Len(telemetry.rows)

\* a step is a script run with no button pressed that finds playback running
\* in simulation mode
TickWhileRunning ==
    /\ script'.run = "none"
    /\ ss.running /\ ss.sim_mode /\ ss.selected_event = << >>

\* C27: in simulation mode a tick taken while running advances sim_idx by at
\* least 1, up to len(full_df), where running becomes False at that tick;
\* and a running playback stops: the script reruns until it does.
C27_PlaybackStops ==
    /\ [][TickWhileRunning =>
              /\ ss'.sim_idx >= Min(ss.sim_idx + 1, Len(telemetry.rows))
              /\ ss'.sim_idx <= Len(telemetry.rows)
              /\ (ss'.sim_idx = Len(telemetry.rows) => ~ ss'.running)]_vars
    /\ ((ss.running /\ ss.sim_mode) ~> ~ ss.running)

\* a playback that ran to the last row and stopped there
C27_Witness ==
    /\ script.run = "none" /\ ~ script.rerun
    /\ Len(telemetry.rows) = MaxRows
    /\ ss.sim_idx = Len(telemetry.rows) /\ ~ ss.running

====
